---------------------------- MODULE Spec2Model ----------------------------
(***************************************************************************)
(* State-machine model of the ESP32-S3 GSM firmware downloader             *)
(* (src/src/gsm.cpp, src/src/main.cpp).                                    *)
(*                                                                         *)
(* Text and binary data are sequences of one-character strings.  The UART  *)
(* receive buffer of CellUART is the FIFO rx; the modem is the environment *)
(* and appends bytes to it.  Time is the value of millis(); because the    *)
(* code only ever uses millis() in a difference against the timestamp it   *)
(* took last (start, startWait, connectTime, lastAct), the model keeps     *)
(* that difference, elapsed, instead of the two operands.                  *)
(***************************************************************************)
EXTENDS Integers, Sequences, FiniteSets, TLC

(***************************************************************************)
(* Bounds of the model (not program constants).                            *)
(***************************************************************************)
\* Milliseconds by which one Tick advances millis().
TickMs == 5000
\* Most fragments the modem delivers between two ticks or commands.
MaxPerTick == 1
\* Most characters a String holds before the heap is exhausted (a further
\* concatenation fails and leaves the String as it is).
MaxString == 24
\* Calls of calculateStorageChecksum on one file.
MaxVerify == 3

(***************************************************************************)
(* Program constants.                                                      *)
(***************************************************************************)
CHUNK_SIZE == 4096
INACTIVITY_TIMEOUT == 60000
\* CellUART.setRxBufferSize(CHUNK_SIZE + 512) (gsm.cpp 58).
RxBufferSize == CHUNK_SIZE + 512
\* Stream::_timeout default used by readStringUntil (Arduino core).
STREAM_TIMEOUT == 1000
\* for(int i=0; i<3; i++)
MAX_ATTEMPTS == 3

Min(a, b) == IF a <= b THEN a ELSE b

(***************************************************************************)
(* Arduino String operations, on sequences of characters.                  *)
(***************************************************************************)
\* s.indexOf(t): the least 0-based index at which t occurs in s, or -1.
IndexOf(s, t) ==
    LET hits == { k \in 0..(Len(s) - Len(t)) : SubSeq(s, k + 1, k + Len(t)) = t }
    IN  IF hits = {} THEN -1 ELSE CHOOSE k \in hits : \A j \in hits : k <= j

\* s.startsWith(p)
StartsWith(s, p) == Len(s) >= Len(p) /\ SubSeq(s, 1, Len(p)) = p

\* s.lastIndexOf(c): the greatest 0-based index of character c in s, or -1.
LastIndexOf(s, c) ==
    LET hits == { k \in 0..(Len(s) - 1) : s[k + 1] = c }
    IN  IF hits = {} THEN -1 ELSE CHOOSE k \in hits : \A j \in hits : k >= j

\* s.substring(from): the characters from 0-based index from to the end.
Substring(s, from) == SubSeq(s, from + 1, Len(s))

Digits == <<"0", "1", "2", "3", "4", "5", "6", "7", "8", "9">>
IsDigit(c) == \E d \in 1..10 : Digits[d] = c
DigitVal(c) == (CHOOSE d \in 1..10 : Digits[d] = c) - 1
IsSpace(c) == c \in {" ", "\t", "\n", "\r"}

\* The value of the leading run of digits of s (0 when there is none).
RECURSIVE DigitRun(_, _)
DigitRun(s, acc) ==
    IF s = <<>> \/ ~IsDigit(Head(s)) THEN acc
    ELSE DigitRun(Tail(s), 10 * acc + DigitVal(Head(s)))

RECURSIVE SkipSpace(_)
SkipSpace(s) == IF s # <<>> /\ IsSpace(Head(s)) THEN SkipSpace(Tail(s)) ELSE s

\* s.toInt(): atol - leading white space, an optional sign, then digits;
\* anything else ends the number.
ToInt(s) ==
    LET t == SkipSpace(s)
    IN  IF t = <<>> THEN 0
        ELSE IF Head(t) = "-" THEN 0 - DigitRun(Tail(t), 0)
        ELSE IF Head(t) = "+" THEN DigitRun(Tail(t), 0)
        ELSE DigitRun(t, 0)

(***************************************************************************)
(* Tokens and modem output.                                                *)
(***************************************************************************)
TokOK == <<"O", "K">>
TokREADY == <<"R", "E", "A", "D", "Y">>
TokCONNECT == <<"C", "O", "N", "N", "E", "C", "T">>
\* "+QHTTPGET: "
StatusPrefix == <<"+", "Q", "H", "T", "T", "P", "G", "E", "T", ":", " ">>
\* "+QHTTPGET: 0,200"
SuccessPrefix == StatusPrefix \o <<"0", ",", "2", "0", "0">>

LineOK == TokOK \o <<"\n">>
LineERROR == <<"E", "R", "R", "O", "R", "\n">>
\* The answer to AT+CPIN?: the READY line followed by the final OK line.
LineREADY == TokREADY \o <<"\n">> \o LineOK
\* The READY line alone, the final OK being late or missing.
LineREADYOnly == TokREADY \o <<"\n">>
LineCONNECT == TokCONNECT \o <<"\n">>


(***************************************************************************)
(* State.                                                                  *)
(***************************************************************************)
VARIABLES
    pc,              \* position of the single thread of control
    sub,             \* callee being executed at pc: "none", "sendAT",
                     \* "waitForResponse" or "readStringUntil"
    i,               \* gsm_setup: loop index
    pwrCycles,       \* invocations of powerCycleModem so far
    attempts,        \* invocations of connectNetwork so far
    setupRet,        \* value returned by gsm_setup ("none" before it returns)
    cmd,             \* sendAT: cmd
    expected,        \* sendAT: expected
    timeout,         \* sendAT / waitForResponse: timeout
    resp,            \* sendAT / waitForResponse: resp
    stale,           \* sendAT: bytes already in rx when the command was written
    atRet,           \* results of the sendAT calls of connectNetwork so far
    elapsed,         \* millis() minus the timestamp the running loop took
    lineElapsed,     \* millis() minus Stream's _startMillis (timedRead)
    rx,              \* bytes received from the modem and not yet read
    polled,          \* the program polled and found nothing to do yet
    sentThisTick,    \* fragments delivered since the last tick or command
    quiet,           \* streaming: time since the modem last delivered a byte
    afterConn,       \* bytes the modem delivered after the CONNECT line
    sent,            \* what the current function wrote to the modem
    fileSize,        \* downloadAndVerify: fileSize
    getSizeSuccess,  \* downloadAndVerify: getSizeSuccess
    line,            \* downloadAndVerify: line
    connected,       \* downloadAndVerify: connected
    buffer,          \* downloadAndVerify: buffer is allocated
    bytesDownloaded, \* downloadAndVerify: bytesDownloaded
    fileExists,      \* SPIFFS: FILE_PATH exists
    fileData,        \* SPIFFS: content of FILE_PATH
    handleOpen,      \* downloadAndVerify: file is an open handle
    fsLog,           \* SPIFFS calls that open, close or remove FILE_PATH
    writeShort,      \* a file.write of this run returned less than its len
    outcome,         \* the message downloadAndVerify printed when it ended
    md5Input         \* calculateStorageChecksum: bytes fed to the MD5 context

setupVars == <<i, pwrCycles, attempts, setupRet>>
atVars == <<cmd, expected, timeout, resp, stale>>
dlVars == <<fileSize, getSizeSuccess, line, connected, buffer, bytesDownloaded>>
fsVars == <<fileExists, fileData, handleOpen, fsLog, writeShort>>
vars == <<pc, sub, setupVars, atVars, atRet, elapsed, lineElapsed, rx, polled,
          sentThisTick, quiet, afterConn, sent, dlVars, fsVars, outcome, md5Input>>

(***************************************************************************)
(* The environment: the clock and the modem.                               *)
(***************************************************************************)
Halted == pc \in {"gs_ret", "dv_ret", "halt"}

\* The program is in one of its busy-poll wait loops.
InWaitLoop ==
    \/ sub \in {"sendAT", "waitForResponse", "readStringUntil"}
    \/ sub = "none" /\ pc \in {"dv_sizewait", "dv_connwait", "dv_stream"}

\* The greatest value of elapsed the model distinguishes: it is beyond every
\* deadline the code compares it with.
ElapsedCap == 80000 + STREAM_TIMEOUT + TickMs

\* millis() advances by TickMs.  Time passes in the wait loops, which iterate
\* far more often than once per tick: when time advances, the program has
\* run since the last tick and has read every byte that had arrived.  The
\* statements between the loops take no time.
Tick ==
    /\ InWaitLoop
    /\ polled
    /\ rx = <<>>
    /\ polled' = FALSE
    /\ sentThisTick' = 0
    /\ elapsed' = Min(elapsed + TickMs, ElapsedCap)
    /\ lineElapsed' = IF sub = "readStringUntil"
                      THEN Min(lineElapsed + TickMs, STREAM_TIMEOUT) ELSE 0
    /\ quiet' = IF pc = "dv_stream"
                THEN Min(quiet + TickMs, INACTIVITY_TIMEOUT + TickMs) ELSE quiet
    /\ UNCHANGED <<pc, sub, setupVars, atVars, atRet, rx, afterConn, sent,
                   dlVars, fsVars, outcome, md5Input>>

\* The bytes the modem delivered after the CONNECT line, f being the
\* latest: the first fileSize of them.
Delivered(f) ==
    IF connected
    THEN SubSeq(afterConn \o f, 1, Min(fileSize, Len(afterConn) + Len(f)))
    ELSE afterConn

\* The modem delivers the bytes of f into the receive buffer, which has
\* room for them.
ModemSend(f) ==
    /\ ~Halted
    /\ polled
    /\ sentThisTick < MaxPerTick
    /\ Len(rx) + Len(f) <= RxBufferSize
    /\ rx' = rx \o f
    /\ sentThisTick' = sentThisTick + 1
    /\ quiet' = IF pc = "dv_stream" THEN 0 ELSE quiet
    /\ afterConn' = Delivered(f)
    /\ UNCHANGED <<pc, sub, setupVars, atVars, atRet, elapsed, lineElapsed,
                   polled, sent, dlVars, fsVars, outcome, md5Input>>

\* While readStringUntil waits, the modem trickles the bytes of f over one
\* tick, with gaps shorter than Stream's timeout, the last of them arriving
\* as the tick ends; readStringUntil takes each byte as it arrives.
Trickle(f) ==
    /\ sub = "readStringUntil"
    /\ polled
    /\ rx = <<>>
    /\ Len(f) * STREAM_TIMEOUT > TickMs
    /\ rx' = f
    /\ polled' = FALSE
    /\ sentThisTick' = 0
    /\ elapsed' = Min(elapsed + TickMs, ElapsedCap)
    /\ lineElapsed' = 0
    /\ afterConn' = Delivered(f)
    /\ UNCHANGED <<pc, sub, setupVars, atVars, atRet, quiet, sent, dlVars, fsVars,
                   outcome, md5Input>>

(***************************************************************************)
(* sendAT (gsm.cpp 284-295) and its call sites.                            *)
(***************************************************************************)
ConnectSites == {"cn_ate0", "cn_cpin", "cn_qideact", "cn_qicsgp", "cn_qiact"}
PrepareSites == {"dv_ate0", "dv_stop", "dv_cfg"}

\* The arguments of the sendAT call at each call site.
SiteCmd(site) ==
    CASE site = "cn_ate0"    -> "ATE0"
      [] site = "cn_cpin"    -> "AT+CPIN?"
      [] site = "cn_qideact" -> "AT+QIDEACT=1"
      [] site = "cn_qicsgp"  -> "AT+QICSGP=1,1,\"airtelgprs.com\",\"\",\"\",1"
      [] site = "cn_qiact"   -> "AT+QIACT=1"
      [] site = "dv_ate0"    -> "ATE0"
      [] site = "dv_stop"    -> "AT+QHTTPSTOP"
      [] site = "dv_cfg"     -> "AT+QHTTPCFG=\"responseheader\",0"

SiteExpected(site) == IF site = "cn_cpin" THEN TokREADY ELSE TokOK

SiteTimeout(site) ==
    CASE site = "cn_cpin"    -> 2000
      [] site = "cn_qideact" -> 5000
      [] site = "cn_qicsgp"  -> 2000
      [] site = "cn_qiact"   -> 10000
      [] OTHER               -> 1000

\* Control after a sendAT call when a failed preparation is started again.
AfterSendATRepeat(site, ok) ==
    CASE site = "cn_ate0"    -> "cn_cpin"
      [] site = "cn_cpin"    -> IF ok THEN "cn_qideact" ELSE "cn_fail"
      [] site = "cn_qideact" -> "cn_qicsgp"
      [] site = "cn_qicsgp"  -> IF ok THEN "cn_qiact" ELSE "cn_fail"
      [] site = "cn_qiact"   -> IF ok THEN "cn_ok" ELSE "cn_fail"
      [] site = "dv_ate0"    -> "dv_stop"
      [] site = "dv_stop"    -> "dv_cfg"
      [] site = "dv_cfg"     -> IF ok THEN "dv_url" ELSE "dv_ate0"
\* Control after a sendAT call when connectNetwork ignores the SIM check.
AfterSendATLenient(site, ok) ==
    CASE site = "cn_ate0"    -> "cn_cpin"
      [] site = "cn_cpin"    -> "cn_qideact"
      [] site = "cn_qideact" -> "cn_qicsgp"
      [] site = "cn_qicsgp"  -> IF ok THEN "cn_qiact" ELSE "cn_fail"
      [] site = "cn_qiact"   -> IF ok THEN "cn_ok" ELSE "cn_fail"
      [] site = "dv_ate0"    -> "dv_stop"
      [] site = "dv_stop"    -> "dv_cfg"
      [] site = "dv_cfg"     -> "dv_url"
\* Where control goes when the sendAT call at site returns ok.
AfterSendAT(site, ok) ==
    CASE site = "cn_ate0"    -> "cn_cpin"
      [] site = "cn_cpin"    -> IF ok THEN "cn_qideact" ELSE "cn_fail"
      [] site = "cn_qideact" -> "cn_qicsgp"
      [] site = "cn_qicsgp"  -> IF ok THEN "cn_qiact" ELSE "cn_fail"
      [] site = "cn_qiact"   -> IF ok THEN "cn_ok" ELSE "cn_fail"
      [] site = "dv_ate0"    -> "dv_stop"
      [] site = "dv_stop"    -> "dv_cfg"
      [] site = "dv_cfg"     -> "dv_url"

\* A loop condition that ignores the clock.
BeforeDeadlineAlways(e, t) == TRUE
\* The loop condition of the wait loops: millis() - start < timeout.
BeforeDeadline(e, t) == e < t

\* Lines 285-287: write the command, take the start time.
SendATCall ==
    /\ pc \in ConnectSites \cup PrepareSites
    /\ sub = "none"
    /\ sub' = "sendAT"
    /\ cmd' = SiteCmd(pc)
    /\ expected' = SiteExpected(pc)
    /\ timeout' = SiteTimeout(pc)
    /\ sent' = IF SiteCmd(pc) # "" THEN Append(sent, SiteCmd(pc)) ELSE sent
    /\ resp' = <<>>
    /\ stale' = Len(rx)
    /\ elapsed' = 0
    /\ polled' = FALSE
    /\ sentThisTick' = 0
    /\ UNCHANGED <<pc, setupVars, atRet, lineElapsed, rx, quiet,
                   afterConn, dlVars, fsVars, outcome, md5Input>>

\* The result of one more byte c in resp: whether sendAT returns true now.
Matched(r, e) == IndexOf(r, e) # -1

\* Lines 288-294: one iteration of the wait loop, or the return after it
\* (which ends the life of the local resp).
SendATLoop ==
    /\ sub = "sendAT"
    /\ polled' = (BeforeDeadline(elapsed, timeout) /\ rx = <<>>)
    /\ IF ~BeforeDeadline(elapsed, timeout)
       THEN \* return false
            /\ sub' = "none"
            /\ atRet' = IF pc \in ConnectSites THEN Append(atRet, FALSE) ELSE atRet
            /\ pc' = AfterSendAT(pc, FALSE)
            /\ resp' = <<>>
            /\ UNCHANGED rx
       ELSE IF rx # <<>>
       THEN /\ rx' = Tail(rx)
            /\ IF Matched(Append(resp, Head(rx)), expected)
               THEN \* return true
                    /\ sub' = "none"
                    /\ atRet' = IF pc \in ConnectSites THEN Append(atRet, TRUE) ELSE atRet
                    /\ pc' = AfterSendAT(pc, TRUE)
                    /\ resp' = <<>>
               ELSE /\ resp' = Append(resp, Head(rx))
                    /\ UNCHANGED <<sub, atRet, pc>>
       ELSE UNCHANGED <<sub, atRet, pc, rx, resp>>
    /\ stale' = IF sub' = "none" THEN 0 ELSE stale
    /\ UNCHANGED <<setupVars, cmd, expected, timeout, elapsed, lineElapsed,
                   sentThisTick, quiet, afterConn, sent, dlVars, fsVars,
                   outcome, md5Input>>

(***************************************************************************)
(* gsm_setup (gsm.cpp 56-72), connectNetwork (256-264),                    *)
(* powerCycleModem (266-282).                                              *)
(***************************************************************************)
\* powerCycleModem: the reset and power-key pulses; one more invocation.
PowerCycleModem(n) == n + 1

\* The for-loop test of gsm_setup, off by one.
LoopTestInclusive(k) == k <= MAX_ATTEMPTS
\* The for-loop test of gsm_setup.
LoopTest(k) == k < MAX_ATTEMPTS

\* Lines 58-67: configure the UART, power-cycle, enter the loop and call
\* connectNetwork for the first time.
GsmSetup ==
    /\ pc = "gsm_setup"
    /\ pwrCycles' = PowerCycleModem(pwrCycles)
    /\ i' = 0
    /\ IF LoopTest(0)
       THEN /\ pc' = "cn_ate0"
            /\ attempts' = attempts + 1
            /\ setupRet' = setupRet
       ELSE /\ pc' = "gs_ret"
            /\ setupRet' = "false"
            /\ attempts' = attempts
    /\ sent' = <<>>
    /\ atRet' = <<>>
    /\ polled' = FALSE
    /\ UNCHANGED <<sub, atVars, elapsed, lineElapsed, rx, sentThisTick, quiet,
                   afterConn, dlVars, fsVars, outcome, md5Input>>

\* Line 67, connectNetwork returned true: return true.
GsmSetupSuccess ==
    /\ pc = "cn_ok"
    /\ pc' = "gs_ret"
    /\ setupRet' = "true"
    /\ polled' = FALSE
    /\ UNCHANGED <<sub, i, pwrCycles, attempts, atVars, atRet, elapsed,
                   lineElapsed, rx, sentThisTick, quiet, afterConn, sent,
                   dlVars, fsVars, outcome, md5Input>>

\* Lines 68-71, connectNetwork returned false: power-cycle, i++, and either
\* call connectNetwork again or leave the loop and return false.
GsmSetupRetry ==
    /\ pc = "cn_fail"
    /\ pwrCycles' = PowerCycleModem(pwrCycles)
    /\ i' = i + 1
    /\ IF LoopTest(i + 1)
       THEN /\ pc' = "cn_ate0"
            /\ attempts' = attempts + 1
            /\ sent' = <<>>
            /\ atRet' = <<>>
            /\ setupRet' = setupRet
       ELSE /\ pc' = "gs_ret"
            /\ setupRet' = "false"
            /\ UNCHANGED <<attempts, sent, atRet>>
    /\ polled' = FALSE
    /\ UNCHANGED <<sub, atVars, elapsed, lineElapsed, rx, sentThisTick, quiet,
                   afterConn, dlVars, fsVars, outcome, md5Input>>


(***************************************************************************)
(* waitForResponse (gsm.cpp 297-304) and readStringUntil.                  *)
(***************************************************************************)
\* Lines 298-299 at its two call sites (lines 95-96 and 100-101): write the
\* URL command or the URL, then collect the answer for 5000 ms.
WaitForResponseCall ==
    /\ pc \in {"dv_url", "dv_urlbody"}
    /\ sub = "none"
    /\ sub' = "waitForResponse"
    /\ sent' = Append(sent, IF pc = "dv_url" THEN "AT+QHTTPURL" ELSE "<url>")
    /\ timeout' = 5000
    /\ resp' = <<>>
    /\ elapsed' = 0
    /\ polled' = FALSE
    /\ sentThisTick' = 0
    /\ UNCHANGED <<pc, setupVars, cmd, expected, stale, atRet, lineElapsed, rx,
                   quiet, afterConn, dlVars, fsVars, outcome,
                   md5Input>>

\* Lines 300-303: one iteration of the outer loop (the inner loop drains
\* the receive buffer), or the return after it and the caller's test of
\* the result (lines 96-99).  The return ends the life of the local resp.
WaitForResponseLoop ==
    /\ sub = "waitForResponse"
    /\ polled' = (BeforeDeadline(elapsed, timeout) /\ rx = <<>>)
    /\ IF BeforeDeadline(elapsed, timeout)
       THEN /\ resp' = resp \o rx
            /\ rx' = <<>>
            /\ UNCHANGED <<sub, pc, outcome>>
       ELSE /\ sub' = "none"
            /\ resp' = <<>>
            /\ UNCHANGED rx
            /\ IF pc = "dv_url" /\ IndexOf(resp, TokCONNECT) = -1
               THEN /\ outcome' = "URL_FAIL"
                    /\ pc' = "dv_ret"
               ELSE /\ pc' = IF pc = "dv_url" THEN "dv_urlbody" ELSE "dv_get"
                    /\ UNCHANGED outcome
    /\ UNCHANGED <<setupVars, cmd, expected, timeout, stale, atRet, elapsed,
                   lineElapsed, sentThisTick, quiet, afterConn, sent, dlVars,
                   fsVars, md5Input>>

\* CellUART.readStringUntil('\n') (lines 114 and 152): one character, the
\* terminator, or the end of Stream's timeout with no character.
ReadStringUntil ==
    /\ sub = "readStringUntil"
    /\ polled' = (rx = <<>> /\ lineElapsed < STREAM_TIMEOUT)
    /\ IF rx # <<>>
       THEN /\ rx' = Tail(rx)
            /\ lineElapsed' = 0
            /\ IF Head(rx) = "\n"
               THEN sub' = "lineRead" /\ UNCHANGED line
               ELSE /\ line' = IF Len(line) < MaxString
                               THEN Append(line, Head(rx)) ELSE line
                    /\ UNCHANGED sub
       ELSE /\ sub' = IF lineElapsed >= STREAM_TIMEOUT THEN "lineRead" ELSE sub
            /\ UNCHANGED <<rx, line, lineElapsed>>
    /\ UNCHANGED <<pc, setupVars, atVars, atRet, elapsed, sentThisTick, quiet,
                   afterConn, sent, fileSize, getSizeSuccess, connected,
                   buffer, bytesDownloaded, fsVars, outcome, md5Input>>

(***************************************************************************)
(* downloadAndVerify (gsm.cpp 84-218).                                     *)
(***************************************************************************)
\* Lines 105-109: issue the GET, initialise the size wait.
DvGet ==
    /\ pc = "dv_get"
    /\ sent' = Append(sent, "AT+QHTTPGET=80")
    /\ fileSize' = -1
    /\ getSizeSuccess' = FALSE
    /\ elapsed' = 0
    /\ pc' = "dv_sizewait"
    /\ polled' = FALSE
    /\ sentThisTick' = 0
    /\ UNCHANGED <<sub, setupVars, atVars, atRet, lineElapsed, rx,
                   quiet, afterConn, line, connected, buffer,
                   bytesDownloaded, fsVars, outcome, md5Input>>

\* Lines 112-114 and 150-152: the loop test of a line wait and, when a byte
\* is available, the call of readStringUntil.
LineWait(here, limit, after) ==
    /\ pc = here
    /\ sub = "none"
    /\ polled' = (BeforeDeadline(elapsed, limit) /\ rx = <<>>)
    /\ IF ~BeforeDeadline(elapsed, limit)
       THEN /\ pc' = after
            /\ UNCHANGED <<sub, line, lineElapsed>>
       ELSE IF rx # <<>>
       THEN /\ sub' = "readStringUntil"
            /\ line' = <<>>
            /\ lineElapsed' = 0
            /\ UNCHANGED pc
       ELSE UNCHANGED <<pc, sub, line, lineElapsed>>
    /\ UNCHANGED <<setupVars, atVars, atRet, elapsed, rx, sentThisTick, quiet,
                   afterConn, sent, fileSize, getSizeSuccess, connected,
                   buffer, bytesDownloaded, fsVars, outcome, md5Input>>

DvSizeWait == LineWait("dv_sizewait", 80000, "dv_sizecheck")

\* The size carried by a success line (line 116).
ParseSize(l) == ToInt(Substring(l, LastIndexOf(l, ",") + 1))

\* A test of the status line that takes no line for an error.
IsHttpErrorNever(l) == FALSE
\* Line 121: a status line that is not a success line.
IsHttpError(l) == StartsWith(l, StatusPrefix) /\ ~StartsWith(l, SuccessPrefix)

\* Lines 115-125: the line just read during the size wait; the local line
\* ends with the iteration.
DvSizeLine ==
    /\ pc = "dv_sizewait"
    /\ sub = "lineRead"
    /\ sub' = "none"
    /\ line' = <<>>
    /\ polled' = FALSE
    /\ IF StartsWith(line, SuccessPrefix)
       THEN /\ fileSize' = ParseSize(line)
            /\ getSizeSuccess' = TRUE
            /\ pc' = "dv_sizecheck"
            /\ UNCHANGED outcome
       ELSE IF IsHttpError(line)
       THEN /\ outcome' = "HTTP_ERROR"
            /\ pc' = "dv_ret"
            /\ UNCHANGED <<fileSize, getSizeSuccess>>
       ELSE UNCHANGED <<pc, fileSize, getSizeSuccess, outcome>>
    /\ UNCHANGED <<setupVars, atVars, atRet, elapsed, lineElapsed, rx,
                   sentThisTick, quiet, afterConn, sent, connected, buffer,
                   bytesDownloaded, fsVars, md5Input>>

\* Lines 128-131.
DvSizeCheck ==
    /\ pc = "dv_sizecheck"
    /\ polled' = FALSE
    /\ IF ~getSizeSuccess \/ fileSize <= 0
       THEN outcome' = "NO_SIZE" /\ pc' = "dv_ret"
       ELSE pc' = "dv_open" /\ UNCHANGED outcome
    /\ UNCHANGED <<sub, setupVars, atVars, atRet, elapsed, lineElapsed, rx,
                   sentThisTick, quiet, afterConn, sent, dlVars, fsVars,
                   md5Input>>

\* Lines 134-149: remove a file left at FILE_PATH, open it for writing
\* (which creates it empty, or fails), issue the read command and initialise
\* the CONNECT wait.
DvOpen ==
    /\ pc = "dv_open"
    /\ polled' = FALSE
    /\ sentThisTick' = 0
    /\ \E opened \in BOOLEAN :
          LET log == IF fileExists THEN Append(fsLog, "remove") ELSE fsLog
          IN  IF opened
              THEN /\ fileExists' = TRUE
                   /\ fileData' = <<>>
                   /\ handleOpen' = TRUE
                   /\ fsLog' = Append(log, "open")
                   /\ sent' = Append(sent, "AT+QHTTPREAD=300")
                   /\ elapsed' = 0
                   /\ connected' = FALSE
                   /\ pc' = "dv_connwait"
                   /\ UNCHANGED outcome
              ELSE /\ fileExists' = FALSE
                   /\ fileData' = <<>>
                   /\ fsLog' = log
                   /\ outcome' = "OPEN_FAIL"
                   /\ pc' = "dv_ret"
                   /\ UNCHANGED <<handleOpen, sent, elapsed, connected>>
    /\ UNCHANGED <<sub, setupVars, atVars, atRet, lineElapsed, rx,
                   quiet, afterConn, fileSize, getSizeSuccess,
                   line, buffer, bytesDownloaded, writeShort, md5Input>>

DvConnWait == LineWait("dv_connwait", 10000, "dv_conncheck")

\* Lines 153-157: the line just read during the CONNECT wait; the local
\* line ends with the iteration.
DvConnLine ==
    /\ pc = "dv_connwait"
    /\ sub = "lineRead"
    /\ sub' = "none"
    /\ line' = <<>>
    /\ polled' = FALSE
    /\ IF IndexOf(line, TokCONNECT) # -1
       THEN /\ connected' = TRUE
            /\ pc' = "dv_conncheck"
            /\ afterConn' = SubSeq(rx, 1, Min(fileSize, Len(rx)))
       ELSE UNCHANGED <<connected, pc, afterConn>>
    /\ UNCHANGED <<setupVars, atVars, atRet, elapsed, lineElapsed, rx,
                   sentThisTick, quiet, sent, fileSize, getSizeSuccess,
                   buffer, bytesDownloaded, fsVars, outcome, md5Input>>

\* Lines 160-178: no CONNECT, or the allocation of the chunk buffer (which
\* may fail), then the initialisation of the read loop.
DvConnCheck ==
    /\ pc = "dv_conncheck"
    /\ polled' = FALSE
    /\ IF ~connected
       THEN /\ handleOpen' = FALSE
            /\ fsLog' = Append(fsLog, "close")
            /\ outcome' = "NO_CONNECT"
            /\ pc' = "dv_ret"
            /\ UNCHANGED <<buffer, bytesDownloaded, elapsed, quiet>>
       ELSE \E allocated \in BOOLEAN :
               IF allocated
               THEN /\ buffer' = TRUE
                    /\ bytesDownloaded' = 0
                    /\ elapsed' = 0
                    /\ quiet' = 0
                    /\ pc' = "dv_stream"
                    /\ UNCHANGED <<handleOpen, fsLog, outcome>>
               ELSE /\ handleOpen' = FALSE
                    /\ fsLog' = Append(fsLog, "close")
                    /\ outcome' = "NO_MEM"
                    /\ pc' = "dv_ret"
                    /\ UNCHANGED <<buffer, bytesDownloaded, elapsed, quiet>>
    /\ UNCHANGED <<sub, setupVars, atVars, atRet, lineElapsed, rx,
                   sentThisTick, afterConn, sent, fileSize, getSizeSuccess,
                   line, connected, fileExists, fileData, writeShort,
                   md5Input>>

\* The number of bytes asked for without the clamp to the remaining count.
ToReadUnclamped(avail, done, size) == Min(CHUNK_SIZE, avail)
\* Lines 185-190: the number of bytes one iteration asks readBytes for.
ToRead(avail, done, size) ==
    LET n == Min(CHUNK_SIZE, avail)
    IN  IF done + n > size THEN size - done ELSE n

\* What file.write(buffer, len) may return: len, or less when the write is
\* short or fails.
WriteResults(len) == {len, len - 1, 0}

\* An inactivity test that never fires.
InactiveNever(e) == FALSE
\* An inactivity test that fires at the first silent poll.
InactiveAtOnce(e) == e > 0
\* The loop's inactivity test (line 201).
Inactive(e) == e > INACTIVITY_TIMEOUT

\* Lines 180-205: one iteration of the read loop, or its end.
DvStream ==
    /\ pc = "dv_stream"
    /\ polled' = (bytesDownloaded < fileSize /\ rx = <<>> /\ ~Inactive(elapsed))
    /\ IF ~(bytesDownloaded < fileSize)
       THEN /\ pc' = "dv_finish"
            /\ UNCHANGED <<rx, fileData, writeShort, bytesDownloaded, elapsed>>
       ELSE IF rx # <<>>
       THEN LET len == ToRead(Len(rx), bytesDownloaded, fileSize)
            IN  /\ rx' = SubSeq(rx, len + 1, Len(rx))
                /\ \E written \in WriteResults(len) :
                      /\ fileData' = fileData \o SubSeq(rx, 1, written)
                      /\ writeShort' = (writeShort \/ written < len)
                /\ bytesDownloaded' = bytesDownloaded + len
                /\ elapsed' = 0
                /\ UNCHANGED pc
       ELSE /\ pc' = IF Inactive(elapsed) THEN "dv_finish" ELSE pc
            /\ UNCHANGED <<rx, fileData, writeShort, bytesDownloaded, elapsed>>
    /\ UNCHANGED <<sub, setupVars, atVars, atRet, lineElapsed, sentThisTick,
                   quiet, afterConn, sent, fileSize, getSizeSuccess, line,
                   connected, buffer, fileExists, handleOpen, fsLog, outcome,
                   md5Input>>

\* Post-loop SPIFFS calls with the file deleted while still open.
PostLoopCallsLate(complete) ==
    IF complete THEN <<"close">> ELSE <<"remove", "close">>
\* Lines 207 and 216: the SPIFFS calls after the loop, in program order.
PostLoopCalls(complete) ==
    IF complete THEN <<"close">> ELSE <<"close", "remove">>

\* Lines 207-217: close the file, free the buffer, then verify the
\* complete file or delete the incomplete one.
DvFinish ==
    /\ pc = "dv_finish"
    /\ polled' = FALSE
    /\ handleOpen' = FALSE
    /\ buffer' = FALSE
    /\ IF bytesDownloaded = fileSize
       THEN /\ outcome' = "COMPLETE"
            /\ pc' = "checksum"
            /\ fsLog' = fsLog \o PostLoopCalls(TRUE)
            /\ UNCHANGED <<fileExists, fileData>>
       ELSE /\ outcome' = "INCOMPLETE"
            /\ pc' = "dv_ret"
            /\ fsLog' = fsLog \o PostLoopCalls(FALSE)
            /\ fileExists' = FALSE
            /\ fileData' = <<>>
    /\ UNCHANGED <<sub, setupVars, atVars, atRet, elapsed, lineElapsed, rx,
                   sentThisTick, quiet, afterConn, sent, fileSize,
                   getSizeSuccess, line, connected, bytesDownloaded,
                   writeShort, md5Input>>

(***************************************************************************)
(* calculateStorageChecksum (gsm.cpp 220-254).                             *)
(***************************************************************************)
\* Lines 239-242: the bytes of data fed to the MD5 context, CHUNK_SIZE at a
\* time, in the order read.
FeedChunksFirstOnly(data) == SubSeq(data, 1, Min(CHUNK_SIZE, Len(data)))
RECURSIVE FeedChunks(_)
FeedChunks(data) ==
    IF data = <<>> THEN <<>>
    ELSE LET len == Min(CHUNK_SIZE, Len(data))
         IN  SubSeq(data, 1, len) \o FeedChunks(SubSeq(data, len + 1, Len(data)))

\* The whole function: open for reading (which may fail), allocate the
\* buffer (which may fail), feed the file to MD5, close.
CalculateStorageChecksum ==
    /\ pc = "checksum"
    /\ polled' = FALSE
    /\ pc' = "dv_ret"
    /\ \E opened \in BOOLEAN, allocated \in BOOLEAN :
          IF fileExists /\ opened
          THEN /\ fsLog' = fsLog \o <<"open_read", "close">>
               /\ md5Input' = IF allocated
                              THEN Append(md5Input, FeedChunks(fileData))
                              ELSE md5Input
          ELSE /\ fsLog' = Append(fsLog, "open_read")
               /\ UNCHANGED md5Input
    /\ UNCHANGED <<sub, setupVars, atVars, atRet, elapsed, lineElapsed, rx,
                   sentThisTick, quiet, afterConn, sent, dlVars, fileExists,
                   fileData, handleOpen, writeShort, outcome>>

\* How many times the verifier has opened the file.
VerifyRuns == Cardinality({k \in 1..Len(fsLog) : fsLog[k] = "open_read"})

\* A further call of calculateStorageChecksum on the file as it stands.
VerifyAgain ==
    /\ pc = "dv_ret"
    /\ outcome = "COMPLETE"
    /\ VerifyRuns < MaxVerify
    /\ pc' = "checksum"
    /\ polled' = FALSE
    /\ UNCHANGED <<sub, setupVars, atVars, atRet, elapsed, lineElapsed, rx,
                   sentThisTick, quiet, afterConn, sent, dlVars, fsVars,
                   outcome, md5Input>>

(***************************************************************************)
(* setup() (main.cpp 30-75).                                               *)
(***************************************************************************)
\* Lines 60-74: start the download if gsm_setup returned true; startDownload
\* (gsm.cpp 74-78) calls downloadAndVerify.
StartsDownloadAlways(ret) == TRUE
\* Line 60: if (gsm_setup()).
StartsDownload(ret) == ret = "true"

MainAfterSetup ==
    /\ pc = "gs_ret"
    /\ pc' = IF StartsDownload(setupRet) THEN "dv_ate0" ELSE "halt"
    /\ sent' = <<>>
    /\ atRet' = <<>>
    /\ polled' = FALSE
    /\ UNCHANGED <<sub, setupVars, atVars, elapsed, lineElapsed, rx,
                   sentThisTick, quiet, afterConn, dlVars, fsVars, outcome,
                   md5Input>>

(***************************************************************************)
(* Initial states and specifications.                                      *)
(***************************************************************************)
\* The content of a file an earlier boot left at FILE_PATH.
OldData == <<"o", "l", "d">>

\* Decimal digits of n >= 0.
RECURSIVE Decimal(_)
Decimal(n) == IF n < 10 THEN <<Digits[n + 1]>>
              ELSE Decimal(n \div 10) \o <<Digits[(n % 10) + 1]>>

\* The modem's report of a successful GET of n bytes.
SizeLine(n) == SuccessPrefix \o <<",">> \o Decimal(n) \o <<"\r", "\n">>
\* The modem's report of a failed GET: "+QHTTPGET: 702".
LineHttpError == StatusPrefix \o <<"7", "0", "2", "\r", "\n">>

\* n bytes of payload.
Payload(n) == [k \in 1..n |-> <<"a", "b", "c">>[(k % 3) + 1]]

\* What the modem may deliver while the program attaches to the network.
SetupFrags == {LineOK, LineREADY, LineREADYOnly, LineERROR}
\* A success line that carries no size field.
LineSuccessNoSize == SuccessPrefix \o <<"\r", "\n">>
\* The modem's answer to the read command: CONNECT, two bytes of payload,
\* then the final OK.
ConnectPayloadOK == LineCONNECT \o Payload(2) \o LineOK
\* What the modem may deliver during a download.
DownloadFrags == {LineOK, LineCONNECT, LineHttpError, SizeLine(0), SizeLine(2),
                  Payload(1), ConnectPayloadOK}
\* What the modem may deliver when its success line may lack the size; it
\* falls silent once the read loop runs.
SizeFrags == {LineOK, LineCONNECT, LineHttpError, SizeLine(0), SizeLine(2),
              LineSuccessNoSize, ConnectPayloadOK}
\* The modem's trickle: one byte more than Stream's timeouts fit in a tick.
TrickleFrag == Payload((TickMs \div STREAM_TIMEOUT) + 1)

\* The declared sizes and the bursts of the streaming specification, around
\* the chunk size.
StreamSizes == {CHUNK_SIZE, CHUNK_SIZE + 1}
StreamFrags == {Payload(CHUNK_SIZE - 1), Payload(CHUNK_SIZE + 2)}

\* The locals and the environment before anything ran.
Fresh ==
    /\ sub = "none"
    /\ cmd = ""
    /\ expected = <<>>
    /\ timeout = 0
    /\ resp = <<>>
    /\ stale = 0
    /\ atRet = <<>>
    /\ elapsed = 0
    /\ lineElapsed = 0
    /\ polled = FALSE
    /\ sentThisTick = 0
    /\ quiet = 0
    /\ afterConn = <<>>
    /\ sent = <<>>
    /\ fileSize = -1
    /\ getSizeSuccess = FALSE
    /\ line = <<>>
    /\ connected = FALSE
    /\ buffer = FALSE
    /\ bytesDownloaded = 0
    /\ fileExists \in BOOLEAN
    /\ fileData = IF fileExists THEN OldData ELSE <<>>
    /\ handleOpen = FALSE
    /\ fsLog = <<>>
    /\ writeShort = FALSE
    /\ outcome = "none"
    /\ md5Input = <<>>

\* The state when setup() calls gsm_setup (main.cpp 60).
Init ==
    /\ pc = "gsm_setup"
    /\ i = 0
    /\ pwrCycles = 0
    /\ attempts = 0
    /\ setupRet = "none"
    /\ rx = <<>>
    /\ Fresh

\* The state when startDownload calls downloadAndVerify (gsm.cpp 77), after
\* an attach at the first attempt; the attach may have left bytes unread.
InitDownload ==
    /\ pc = "dv_ate0"
    /\ i = 0
    /\ pwrCycles = 1
    /\ attempts = 1
    /\ setupRet = "true"
    /\ rx \in {<<>>, LineOK}
    /\ Fresh

\* The state when downloadAndVerify enters its read loop (gsm.cpp 180) for
\* a file of one of StreamSizes bytes.
InitStream ==
    /\ pc = "dv_stream"
    /\ sub = "none"
    /\ i = 0
    /\ pwrCycles = 1
    /\ attempts = 1
    /\ setupRet = "true"
    /\ cmd = "AT+QHTTPCFG=\"responseheader\",0"
    /\ expected = TokOK
    /\ timeout = 5000
    /\ resp = <<>>
    /\ stale = 0
    /\ atRet = <<>>
    /\ elapsed = 0
    /\ lineElapsed = 0
    /\ rx = <<>>
    /\ polled = FALSE
    /\ sentThisTick = 0
    /\ quiet = 0
    /\ afterConn = <<>>
    /\ sent = <<"ATE0", "AT+QHTTPSTOP", "AT+QHTTPCFG=\"responseheader\",0",
                "AT+QHTTPURL", "<url>", "AT+QHTTPGET=80", "AT+QHTTPREAD=300">>
    /\ fileSize \in StreamSizes
    /\ getSizeSuccess = TRUE
    /\ line = <<>>
    /\ connected = TRUE
    /\ buffer = TRUE
    /\ bytesDownloaded = 0
    /\ fileExists = TRUE
    /\ fileData = <<>>
    /\ handleOpen = TRUE
    /\ fsLog = <<"open">>
    /\ writeShort = FALSE
    /\ outcome = "none"
    /\ md5Input = <<>>

\* Sizes of the files handed to the verifier.
VerifySizes == {1, 2, CHUNK_SIZE - 1, CHUNK_SIZE, CHUNK_SIZE + 1}

\* The state when downloadAndVerify calls calculateStorageChecksum
\* (gsm.cpp 212) after a complete download of one of VerifySizes bytes.
InitVerify ==
    /\ pc = "checksum"
    /\ sub = "none"
    /\ i = 0
    /\ pwrCycles = 1
    /\ attempts = 1
    /\ setupRet = "true"
    /\ cmd = "AT+QHTTPCFG=\"responseheader\",0"
    /\ expected = TokOK
    /\ timeout = 5000
    /\ resp = <<>>
    /\ stale = 0
    /\ atRet = <<>>
    /\ elapsed = 0
    /\ lineElapsed = 0
    /\ rx = <<>>
    /\ polled = FALSE
    /\ sentThisTick = 0
    /\ quiet = 0
    /\ afterConn = <<>>
    /\ sent = <<"ATE0", "AT+QHTTPSTOP", "AT+QHTTPCFG=\"responseheader\",0",
                "AT+QHTTPURL", "<url>", "AT+QHTTPGET=80", "AT+QHTTPREAD=300">>
    /\ fileSize \in VerifySizes
    /\ getSizeSuccess = TRUE
    /\ line = <<>>
    /\ connected = TRUE
    /\ buffer = FALSE
    /\ bytesDownloaded = fileSize
    /\ fileExists = TRUE
    /\ fileData = Payload(fileSize)
    /\ handleOpen = FALSE
    /\ fsLog = <<"open", "close">>
    /\ writeShort = FALSE
    /\ outcome = "COMPLETE"
    /\ md5Input = <<>>

NextVerify ==
    \/ CalculateStorageChecksum
    \/ VerifyAgain

NextSetup ==
    \/ GsmSetup
    \/ SendATCall
    \/ SendATLoop
    \/ GsmSetupSuccess
    \/ GsmSetupRetry
    \/ Tick
    \/ \E f \in SetupFrags : ModemSend(f)

NextDownload ==
    \/ SendATCall
    \/ SendATLoop
    \/ WaitForResponseCall
    \/ WaitForResponseLoop
    \/ ReadStringUntil
    \/ DvGet
    \/ DvSizeWait
    \/ DvSizeLine
    \/ DvSizeCheck
    \/ DvOpen
    \/ DvConnWait
    \/ DvConnLine
    \/ DvConnCheck
    \/ DvStream
    \/ DvFinish
    \/ CalculateStorageChecksum
    \/ Tick
    \/ \E f \in DownloadFrags : ModemSend(f)
    \/ Trickle(TrickleFrag)

NextSize ==
    \/ SendATCall
    \/ SendATLoop
    \/ WaitForResponseCall
    \/ WaitForResponseLoop
    \/ ReadStringUntil
    \/ DvGet
    \/ DvSizeWait
    \/ DvSizeLine
    \/ DvSizeCheck
    \/ DvOpen
    \/ DvConnWait
    \/ DvConnLine
    \/ DvConnCheck
    \/ DvStream
    \/ DvFinish
    \/ CalculateStorageChecksum
    \/ Tick
    \/ \E f \in SizeFrags : pc # "dv_stream" /\ ModemSend(f)

NextStream ==
    \/ DvStream
    \/ DvFinish
    \/ CalculateStorageChecksum
    \/ Tick
    \/ \E f \in StreamFrags : ModemSend(f)

\* The whole program: setup() calls gsm_setup, then startDownload.
Next ==
    \/ NextSetup
    \/ MainAfterSetup
    \/ NextDownload

\* The steps of the program (the environment's are Tick, ModemSend, Trickle).
Program ==
    \/ GsmSetup \/ SendATCall \/ SendATLoop \/ GsmSetupSuccess \/ GsmSetupRetry
    \/ MainAfterSetup \/ WaitForResponseCall \/ WaitForResponseLoop
    \/ ReadStringUntil \/ DvGet \/ DvSizeWait \/ DvSizeLine \/ DvSizeCheck
    \/ DvOpen \/ DvConnWait \/ DvConnLine \/ DvConnCheck \/ DvStream
    \/ DvFinish \/ CalculateStorageChecksum

Spec == Init /\ [][Next]_vars
SpecSetup == Init /\ [][NextSetup]_vars
SpecDownload == InitDownload /\ [][NextDownload]_vars
SpecStream == InitStream /\ [][NextStream]_vars
SpecSize == InitDownload /\ [][NextSize]_vars
SpecVerify == InitVerify /\ [][NextVerify]_vars

\* The single thread keeps running and millis() keeps advancing.
SpecSetupFair == SpecSetup /\ WF_vars(Program) /\ WF_vars(Tick)
SpecDownloadFair == SpecDownload /\ WF_vars(Program) /\ WF_vars(Tick \/ Trickle(TrickleFrag))

(***************************************************************************)
(* Properties.                                                             *)
(***************************************************************************)
\* connectNetwork returned true from the attempt whose results atRet holds.
AttemptSucceeded ==
    Len(atRet) = 5 /\ atRet[2] /\ atRet[4] /\ atRet[5]

\* C1: gsm_setup makes at most three attach attempts, returns true at the
\* first attempt that succeeds and makes no attempt after it, returns false
\* only when three attempts have failed, and has power-cycled the modem
\* exactly three times when attempts 1 and 2 failed and attempt 3 succeeded.
C1_SetupInv ==
    /\ attempts <= 3
    /\ pc = "gs_ret" => setupRet \in {"true", "false"}
    /\ setupRet = "true" => /\ AttemptSucceeded
                            /\ attempts = i + 1
                            /\ pc = "gs_ret"
    /\ setupRet = "false" => /\ ~AttemptSucceeded
                             /\ attempts = 3
                             /\ i = 3
                             /\ pc = "gs_ret"
    /\ (setupRet = "true" /\ attempts = 3) => pwrCycles = 3
C1_SetupStep ==
    /\ pc = "cn_ok" => (pc' = "gs_ret" /\ setupRet' = "true"
                         /\ attempts' = attempts)
    /\ attempts' # attempts =>
          /\ attempts' = attempts + 1
          /\ pc = "gsm_setup" \/ (pc = "cn_fail" /\ i + 1 = attempts)
    /\ setupRet # "none" => setupRet' = setupRet
C1_Setup == [](C1_SetupInv) /\ [][C1_SetupStep]_vars
C1_Witness ==
    /\ pc = "gs_ret"
    /\ setupRet = "true"
    /\ attempts = 3
    /\ pwrCycles = 3

\* The read loop has ended with every declared byte counted.
LoopEndedFull ==
    \/ pc \in {"dv_finish", "checksum"} /\ bytesDownloaded = fileSize
    \/ outcome = "COMPLETE"

\* C2: when the read loop ends with bytesDownloaded = fileSize, the artifact
\* file holds exactly the first fileSize bytes delivered after the CONNECT
\* line, in delivery order, and its length is fileSize.
C2_ArtifactIsPayload ==
    LoopEndedFull => /\ fileExists
                     /\ Len(fileData) = fileSize
                     /\ fileData = afterConn

\* C3: bytesDownloaded never exceeds fileSize; one iteration of the read
\* loop reads at most min(CHUNK_SIZE, bytes available, bytes remaining) and
\* leaves every other byte of the receive buffer unread.
C3_CountInv ==
    /\ bytesDownloaded >= 0
    /\ bytesDownloaded <= fileSize
C3_ReadStep ==
    pc = "dv_stream" =>
        LET n == bytesDownloaded' - bytesDownloaded
        IN  /\ n >= 0
            /\ n <= CHUNK_SIZE
            /\ n <= Len(rx)
            /\ n <= fileSize - bytesDownloaded
            /\ n > 0 => rx' = SubSeq(rx, n + 1, Len(rx))
C3_ReadClamped == [](C3_CountInv) /\ [][C3_ReadStep]_vars
C3_Witness ==
    /\ pc = "dv_finish"
    /\ fileSize > CHUNK_SIZE
    /\ bytesDownloaded = fileSize
    /\ rx # <<>>

\* The read loop polls an empty channel past the inactivity window with
\* bytes still missing.
Silent ==
    /\ pc = "dv_stream"
    /\ bytesDownloaded < fileSize
    /\ rx = <<>>
    /\ elapsed > INACTIVITY_TIMEOUT

\* C4: when the channel stays silent for longer than the inactivity window
\* (60000 ms since the last chunk read) with bytesDownloaded < fileSize, the
\* read loop ends, the run terminates INCOMPLETE and the artifact file does
\* not exist when downloadAndVerify returns.
C4_AbortInv ==
    /\ (pc = "dv_ret" /\ outcome = "INCOMPLETE") =>
          (~fileExists /\ ~handleOpen /\ bytesDownloaded < fileSize)
    /\ pc = "dv_stream" => elapsed <= INACTIVITY_TIMEOUT + TickMs
C4_AbortStep ==
    /\ Silent => pc' = "dv_finish"
    /\ (pc = "dv_finish" /\ pc' # pc /\ bytesDownloaded < fileSize) =>
          (pc' = "dv_ret" /\ outcome' = "INCOMPLETE" /\ ~fileExists')
C4_InactivityAbort == [](C4_AbortInv) /\ [][C4_AbortStep]_vars
C4_Witness ==
    /\ pc = "dv_ret"
    /\ outcome = "INCOMPLETE"
    /\ bytesDownloaded > 0
    /\ bytesDownloaded < fileSize
    /\ quiet > INACTIVITY_TIMEOUT
    /\ ~fileExists

\* The commands and URL written to the modem so far include c.
WasSent(c) == \E k \in 1..Len(sent) : sent[k] = c
\* The SPIFFS calls so far include op.
Logged(op) == \E k \in 1..Len(fsLog) : fsLog[k] = op
\* The file at FILE_PATH is as it was before the run.
FileUntouched ==
    /\ fsLog = <<>>
    /\ ~handleOpen
    /\ fileData = IF fileExists THEN OldData ELSE <<>>

\* C5: when the first +QHTTPGET status line read during the size wait is not
\* a success line, downloadAndVerify returns at once; it has not opened,
\* created or removed the storage file and has not issued the read command.
C5_ErrorInv ==
    outcome = "HTTP_ERROR" => /\ pc = "dv_ret"
                              /\ FileUntouched
                              /\ ~WasSent("AT+QHTTPREAD=300")
                              /\ ~getSizeSuccess
C5_ErrorStep ==
    (/\ pc = "dv_sizewait"
     /\ sub = "lineRead" /\ sub' # sub
     /\ StartsWith(line, StatusPrefix)
     /\ ~StartsWith(line, SuccessPrefix))
        => /\ pc' = "dv_ret"
           /\ outcome' = "HTTP_ERROR"
           /\ UNCHANGED <<fileExists, fileData, handleOpen, fsLog, sent>>
C5_HttpErrorAborts == [](C5_ErrorInv) /\ [][C5_ErrorStep]_vars
C5_Witness ==
    /\ pc = "dv_ret"
    /\ outcome = "HTTP_ERROR"
    /\ fileExists
    /\ fileData = OldData

\* downloadAndVerify returned after a failure before the read loop.
FailedBeforeStreaming ==
    /\ pc = "dv_ret"
    /\ outcome \in {"URL_FAIL", "HTTP_ERROR", "NO_SIZE", "OPEN_FAIL",
                    "NO_CONNECT", "NO_MEM"}

\* C6: when downloadAndVerify returns after a failure before the read loop,
\* the artifact file does not exist: this run never created it, or it was
\* removed.
C6_NoArtifactOnEarlyFailure ==
    FailedBeforeStreaming => (~fileExists \/ ~Logged("open"))

\* C7: when the modem reported a success line with size S > 0, answered the
\* read command with CONNECT, the chunk buffer was allocated and the payload
\* arrived with no gap longer than the inactivity window, the run ends
\* COMPLETE with bytesDownloaded = S; calculateStorageChecksum is invoked
\* exactly when the read loop ended with bytesDownloaded = fileSize, and the
\* artifact is then retained.
C7_CompleteInv ==
    /\ (/\ pc = "dv_ret"
        /\ getSizeSuccess /\ fileSize > 0
        /\ connected
        /\ outcome # "NO_MEM"
        /\ quiet <= INACTIVITY_TIMEOUT)
           => (outcome = "COMPLETE" /\ bytesDownloaded = fileSize)
    /\ Logged("open_read") =>
          (outcome = "COMPLETE" /\ bytesDownloaded = fileSize /\ fileExists)
    /\ (pc = "dv_ret" /\ outcome = "COMPLETE") =>
          (Logged("open_read") /\ fileExists)
C7_CompleteStep ==
    (pc = "dv_finish" /\ pc' # pc) =>
        /\ (bytesDownloaded = fileSize) = (pc' = "checksum")
        /\ (bytesDownloaded = fileSize) = (outcome' = "COMPLETE")
AttachCommands ==
    <<SiteCmd("cn_ate0"), SiteCmd("cn_cpin"), SiteCmd("cn_qideact"),
      SiteCmd("cn_qicsgp"), SiteCmd("cn_qiact")>>
\* Every command of the current attempt was issued after its predecessors
\* succeeded, those at the positions in tolerated excepted.
IssuedInOrder(tolerated) ==
    /\ Len(sent) <= 5
    /\ sent = SubSeq(AttachCommands, 1, Len(sent))
    /\ Len(atRet) <= Len(sent)
    /\ Len(sent) <= Len(atRet) + 1
    /\ \A k \in 1..Len(sent) : \A j \in 1..(k - 1) :
          atRet[j] \/ j \in tolerated
    /\ (\E j \in 1..Len(atRet) : ~atRet[j] /\ j \notin tolerated) =>
          pc \in {"cn_fail", "gs_ret"}

\* C8: in connectNetwork each AT transaction is issued only if every earlier
\* one succeeded, except the echo-off (step 1) and the stale-context
\* deactivation (step 3), whose failures are ignored; the first failure of
\* another transaction makes connectNetwork return false with no later
\* command sent.
C8_AttachOrder == IssuedInOrder({1, 3})
C8_Witness ==
    /\ pc = "cn_fail"
    /\ atRet = <<FALSE, TRUE, FALSE, FALSE>>
    /\ Len(sent) = 4
\* C8 as stated: step 3 is the single exception.
C8_AsStated == IssuedInOrder({3})

\* C9: every sendAT call ends exactly once: it returns true exactly when the
\* bytes accumulated before the timeout contain the expected token, and
\* false otherwise, once the timeout has elapsed; the command is written
\* once per call, and no call lasts forever whatever the modem sends.
C9_CallInv ==
    /\ sub = "sendAT" => IndexOf(resp, expected) = -1
    /\ Len(sent) = Len(atRet) + (IF sub = "sendAT" THEN 1 ELSE 0)
C9_ReturnStep ==
    /\ sub = "sendAT" => sent' = sent
    /\ (sub = "sendAT" /\ sub' = "none") =>
          LET ok == atRet'[Len(atRet')]
              tokenSeen == /\ elapsed < timeout
                           /\ rx # <<>>
                           /\ IndexOf(Append(resp, Head(rx)), expected) # -1
          IN  /\ Len(atRet') = Len(atRet) + 1
              /\ ok = tokenSeen
              /\ ~ok => elapsed >= timeout
C9_SendATTerminates ==
    /\ [](C9_CallInv)
    /\ [][C9_ReturnStep]_vars
    /\ (sub = "sendAT") ~> (sub = "none")
C9_Witness ==
    /\ pc = "cn_qideact"
    /\ sub = "none"
    /\ atRet = <<FALSE, TRUE>>
    /\ Len(sent) = 2

\* C10: every wait of downloadAndVerify ends by success or by its deadline:
\* the URL-ready wait within 5000 ms, the size wait within 80000 ms, the
\* CONNECT wait within 10000 ms (a line read in progress adding at most
\* Stream's timeout), the read loop within the inactivity window of the last
\* chunk; each to the precision of one tick.
C10_WaitsEndByDeadline ==
    /\ sub = "waitForResponse" => elapsed < 5000 + TickMs
    /\ pc = "dv_sizewait" => elapsed < 80000 + STREAM_TIMEOUT + TickMs
    /\ pc = "dv_connwait" => elapsed < 10000 + STREAM_TIMEOUT + TickMs
    /\ pc = "dv_stream" => elapsed <= INACTIVITY_TIMEOUT + TickMs

\* C11: after downloadAndVerify returns, the file at FILE_PATH is absent or
\* was created by this run: nothing stored by an earlier run survives, a run
\* that aborts included.
C11_OldContentNeverSurvives ==
    (pc = "dv_ret" /\ fileExists) => (Logged("open") /\ fileData # OldData)

\* C12: in gsm_setup the power-cycle invocations are as many as the attach
\* attempts: one before the first attempt, one before each retry, none that
\* no attempt follows.
C12_PowerCyclePerAttempt ==
    /\ pc \notin {"gsm_setup", "cn_fail"} => pwrCycles = attempts
    /\ pc = "gs_ret" => pwrCycles = attempts

\* C13: when sendAT returns true for a non-empty command, the token it
\* matched arrived after the command was written: no byte left unread by an
\* earlier transaction is part of it.
C13_ReturnStep ==
    (/\ sub = "sendAT" /\ sub' = "none"
     /\ cmd # ""
     /\ Len(atRet') > Len(atRet) /\ atRet'[Len(atRet')])
        => stale <= Len(resp) + 1 - Len(expected)
C13_TokenAnswersCommand == [][C13_ReturnStep]_vars

\* C14: when a file.write of a chunk failed or was short, the run does not
\* end COMPLETE, the verifier is not invoked, and the partial artifact is
\* gone when downloadAndVerify returns.
C14_ShortWriteAborts ==
    writeShort => /\ outcome # "COMPLETE"
                  /\ ~Logged("open_read")
                  /\ pc = "dv_ret" => ~fileExists

\* The position in fsLog of this run's SPIFFS.open for writing (0: none).
OpenIdx ==
    IF Logged("open")
    THEN CHOOSE k \in 1..Len(fsLog) : fsLog[k] = "open"
    ELSE 0
\* The writing handle was closed before the SPIFFS call at position k.
ClosedBefore(k) ==
    \E j \in (OpenIdx + 1)..(k - 1) : fsLog[j] = "close"

\* C15: on every return of downloadAndVerify after the storage file was
\* opened the handle has been closed, and it was closed before the file was
\* removed or handed to calculateStorageChecksum.
C15_HandleClosed ==
    /\ pc = "dv_ret" => ~handleOpen
    /\ (pc = "dv_ret" /\ OpenIdx > 0) => ClosedBefore(Len(fsLog) + 1)
    /\ handleOpen => (OpenIdx > 0 /\ ~ClosedBefore(Len(fsLog) + 1))
    /\ \A k \in 1..Len(fsLog) :
          (OpenIdx > 0 /\ k > OpenIdx /\ fsLog[k] \in {"remove", "open_read"})
              => ClosedBefore(k)
C15_Witness ==
    /\ pc = "dv_ret"
    /\ outcome = "INCOMPLETE"
    /\ OpenIdx > 0
    /\ fsLog[Len(fsLog)] = "remove"
    /\ ~handleOpen

\* The step of the download the program is in: 0 IDLE (preparing the
\* modem), 1 MODEM_PREPARED, 2 URL_SENT, 3 GET_ISSUED, 4 SIZE_KNOWN,
\* 5 STREAM_CONNECTED, 6 STREAMING, 7 ended.  The size is known once a
\* success line carried a size greater than zero.
Phase ==
    CASE pc \in {"dv_ate0", "dv_stop", "dv_cfg"} -> 0
      [] pc = "dv_url" -> 1
      [] pc \in {"dv_urlbody", "dv_get"} -> 2
      [] \/ pc = "dv_sizewait"
         \/ pc = "dv_sizecheck" /\ ~(getSizeSuccess /\ fileSize > 0) -> 3
      [] \/ pc = "dv_sizecheck" /\ getSizeSuccess /\ fileSize > 0
         \/ pc \in {"dv_open", "dv_connwait"}
         \/ pc = "dv_conncheck" /\ ~connected -> 4
      [] pc = "dv_conncheck" /\ connected -> 5
      [] pc \in {"dv_stream", "dv_finish"} -> 6
      [] OTHER -> 7
\* The step in which each failure message is printed.
AbortPhase(o) ==
    CASE o = "URL_FAIL" -> 1
      [] o = "HTTP_ERROR" -> 3
      [] o = "NO_SIZE" -> 3
      [] o = "OPEN_FAIL" -> 4
      [] o = "NO_CONNECT" -> 4
      [] o = "NO_MEM" -> 5
      [] OTHER -> 6

\* C16: the steps of a download occur in the order IDLE, MODEM_PREPARED,
\* URL_SENT, GET_ISSUED, SIZE_KNOWN, STREAM_CONNECTED, STREAMING, then
\* COMPLETE or INCOMPLETE; none is skipped or entered again, none follows a
\* later one, a failed step ends the run, and no command is sent twice.
C16_PhaseInv ==
    /\ \A j, k \in 1..Len(sent) : j # k => sent[j] # sent[k]
    /\ outcome # "none" => Phase = 7
    /\ outcome \in {"COMPLETE", "INCOMPLETE"} =>
          (getSizeSuccess /\ connected /\ WasSent("AT+QHTTPREAD=300"))
C16_PhaseStep ==
    /\ Phase' \in {Phase, Phase + 1} \/ (Phase' = 7 /\ pc' = "dv_ret")
    /\ outcome' # outcome => (outcome = "none" /\ Phase = AbortPhase(outcome'))
    /\ outcome # "none" => outcome' = outcome
C16_StrictSequence == [](C16_PhaseInv) /\ [][C16_PhaseStep]_vars
C16_Witness ==
    /\ pc = "dv_ret"
    /\ outcome = "COMPLETE"
    /\ Len(sent) = 7

\* The step that takes the size from a success line.
SizeAssigned == ~getSizeSuccess /\ getSizeSuccess'
\* The 0-based index at which the size field of a success line starts.
SizeFieldAt == Len(SuccessPrefix) + 1

\* C17: the declared size is assigned at most once, from the trailing size
\* field of the first success line, and never changes afterwards; the
\* storage file is opened and the read command issued only when it is > 0.
C17_SizeInv ==
    (Logged("open") \/ handleOpen \/ WasSent("AT+QHTTPREAD=300"))
        => (getSizeSuccess /\ fileSize > 0)
C17_SizeStep ==
    /\ SizeAssigned =>
          /\ pc = "dv_sizewait" /\ sub = "lineRead"
          /\ StartsWith(line, SuccessPrefix \o <<",">>)
          /\ fileSize' = ToInt(Substring(line, SizeFieldAt))
    /\ getSizeSuccess => (getSizeSuccess' /\ fileSize' = fileSize)
    /\ (fileSize' # fileSize /\ pc # "dv_get") => SizeAssigned
C17_SizeAssignedOnce == [](C17_SizeInv) /\ [][C17_SizeStep]_vars

\* C18: the declared size is never taken from the HTTP status field: after a
\* success line without a size field the run has no usable size, and a run
\* without a usable size returns without opening storage or asking for the
\* stream.
C18_NoSizeStep ==
    /\ (/\ pc = "dv_sizewait" /\ sub = "lineRead" /\ sub' = "none"
        /\ line \in {SuccessPrefix, SuccessPrefix \o <<"\r">>})
          => ~(getSizeSuccess' /\ fileSize' > 0)
    /\ (/\ pc = "dv_sizecheck" /\ pc' # pc
        /\ ~(getSizeSuccess /\ fileSize > 0))
          => (pc' = "dv_ret" /\ UNCHANGED <<fsLog, sent, handleOpen>>)
C18_StatusIsNotSize == [][C18_NoSizeStep]_vars

\* The verifier opened the file, could not, and returned.
VerifierOpenFailed ==
    fsLog' = Append(fsLog, "open_read")

\* C19: calculateStorageChecksum leaves the file's existence and content as
\* they were, feeds the file's bytes to the hash once each and in file order
\* when it produces a digest, produces none when the file cannot be opened,
\* and every run over the same unchanged file hashes the same bytes.
C19_VerifyStep ==
    (pc = "checksum" /\ pc' # pc) =>
        /\ fileExists' = fileExists /\ fileData' = fileData
        /\ \/ md5Input' = md5Input
           \/ md5Input' = Append(md5Input, fileData)
        /\ VerifierOpenFailed => md5Input' = md5Input
        /\ \A k \in (Len(fsLog) + 1)..Len(fsLog') :
              fsLog'[k] \in {"open_read", "close"}
C19_SameDigest ==
    \A a, b \in 1..Len(md5Input) :
        md5Input[a] = md5Input[b] /\ md5Input[a] = fileData
SetupPcs == ConnectSites \cup {"gsm_setup", "cn_ok", "cn_fail", "gs_ret", "halt"}
\* The HTTP commands downloadAndVerify writes to the modem.
HttpCommands ==
    {SiteCmd("dv_stop"), SiteCmd("dv_cfg"), "AT+QHTTPURL", "AT+QHTTPGET=80",
     "AT+QHTTPREAD=300"}
HttpCommandSent == \E k \in 1..Len(sent) : sent[k] \in HttpCommands

\* C20: the download runs, and HTTP commands are written, only after
\* gsm_setup returned true in this boot; after it returned false the program
\* halts without a download, an HTTP command or a file operation.
C20_GateInv ==
    /\ (pc \notin SetupPcs \/ HttpCommandSent \/ fsLog # <<>>)
          => setupRet = "true"
    /\ setupRet = "false"
          => (pc \in {"gs_ret", "halt"} /\ ~HttpCommandSent /\ outcome = "none")
C20_GateStep ==
    /\ (pc \in SetupPcs /\ pc' \notin SetupPcs)
          => (pc = "gs_ret" /\ setupRet = "true" /\ pc' = "dv_ate0")
    /\ pc = "halt" => pc' = "halt"
    /\ setupRet # "none" => setupRet' = setupRet
C20_DownloadOnlyAfterAttach == [](C20_GateInv) /\ [][C20_GateStep]_vars
C20_Witness ==
    /\ setupRet = "true"
    /\ attempts = 2
    /\ WasSent("AT+QHTTPGET=80")
C20_WitnessHalt == pc = "halt" /\ setupRet = "false" /\ attempts = MAX_ATTEMPTS

====
